---- MODULE Spec2Model ----
(***************************************************************************)
(* Model of finance_dashboard/app.py: a Streamlit script that is executed  *)
(* top to bottom on every user interaction.  One script run is one action: *)
(* the sidebar handler of the selected data source followed by the main    *)
(* content.  The state that survives between runs is st.session_state and  *)
(* the two st.cache_data caches; the provider, the HTTP endpoint and the   *)
(* uploaded file are inputs of a run.                                      *)
(***************************************************************************)
EXTENDS Integers, Sequences, FiniteSets, TLC

VARIABLES
    df,           \* st.session_state.df
    data_source,  \* st.session_state.data_source
    ticker_data,  \* st.session_state.ticker_data
    yf_cache,     \* entries of @st.cache_data fetch_yfinance_data
    api_cache,    \* entries of @st.cache_data fetch_api_data
    now,          \* wall clock, in seconds
    last,         \* what the sidebar of the latest script run did
    page          \* what the main content of the latest script run showed

vars == <<df, data_source, ticker_data, yf_cache, api_cache, now, last, page>>

----------------------------------------------------------------------------
(* Bounds of the model.                                                    *)

\* number of clock steps explored
MaxTicks == 2

(* Program constant: the ttl of both caches (lines 22 and 35), in seconds. *)
ttl == 3600

\* the clock moves in steps of half a ttl
Tick == ttl \div 2

----------------------------------------------------------------------------
(* Values.                                                                 *)

None == [none |-> TRUE]
EmptyDict == [empty |-> TRUE]
NoEntry == [entry |-> FALSE]
NoFile == [file |-> FALSE]
NoPick == [pick |-> FALSE]

Col(n, t) == [name |-> n, dtype |-> t]
Frame(cols, n) == [columns |-> cols, rows |-> n]

\* pandas DataFrame.empty: any axis of length 0
IsEmpty(d) == Len(d.columns) = 0 \/ d.rows = 0

HasCol(d, n) == \E i \in 1..Len(d.columns) : d.columns[i].name = n

RECURSIVE NamesOfDtype(_, _)
NamesOfDtype(cols, t) ==
    IF cols = <<>> THEN <<>>
    ELSE (IF Head(cols).dtype = t THEN <<Head(cols).name>> ELSE <<>>)
         \o NamesOfDtype(Tail(cols), t)

SeqToSet(s) == {s[i] : i \in 1..Len(s)}

----------------------------------------------------------------------------
(* fetch_yfinance_data (lines 21-32).                                      *)
(* stock.history either raises or returns a frame indexed by Date; every   *)
(* price column yfinance returns is a float or integer column.             *)

Raised == [raised |-> TRUE]
History(idx, names, n) ==
    [raised |-> FALSE, index |-> idx,
     columns |-> [i \in 1..Len(names) |-> Col(names[i], "number")], rows |-> n]

\* df.reset_index(inplace=True): the index becomes the first column
reset_index(h) == Frame(<<h.index>> \o h.columns, h.rows)

\* The body of fetch_yfinance_data: what it returns and what it reports.
\* "except Exception" catches whatever the provider raises.
fetch_yfinance_data(outcome) ==
    IF outcome.raised
    THEN [crashed |-> FALSE, value |-> None, msg |-> "fetch_error"]
    ELSE [crashed |-> FALSE, value |-> reset_index(outcome), msg |-> "none"]

\* ticker.upper(), on tickers written as sequences of characters
UpperChar(c) ==
    CASE c = "a" -> "A" [] c = "p" -> "P" [] c = "l" -> "L"
      [] c = "m" -> "M" [] c = "s" -> "S" [] c = "f" -> "F" [] c = "t" -> "T"
      [] OTHER -> c
upper(t) == [i \in 1..Len(t) |-> UpperChar(t[i])]

\* variant: the period is not part of the key
YFKey_ticker_only(ticker, period) == <<upper(ticker), "1mo">>

\* The arguments fetch_yfinance_data is called with, which key its cache.
YFKey(ticker, period) == <<upper(ticker), period>>

----------------------------------------------------------------------------
(* fetch_api_data (lines 34-58).                                           *)
(* A parsed JSON value is a scalar, an object (an ordered list of          *)
(* key/value pairs with scalar values) or a list.                          *)

JNum == [t |-> "num"]
JStr == [t |-> "str"]
JNull == [t |-> "null"]
KV(k, v) == [k |-> k, v |-> v]
JObj(items) == [t |-> "obj", items |-> items]
JList(elems) == [t |-> "list", elems |-> elems]

ObjKeys(o) == [i \in 1..Len(o.items) |-> o.items[i].k]

\* keys of all objects, in order of first appearance
RECURSIVE UnionKeys(_, _)
UnionKeys(elems, seen) ==
    IF elems = <<>> THEN seen
    ELSE LET ks == ObjKeys(Head(elems))
             fresh == SelectSeq(ks, LAMBDA k : k \notin SeqToSet(seen))
         IN UnionKeys(Tail(elems), seen \o fresh)

\* the JSON type an object holds under key k ("missing" where absent)
ItemType(o, k) ==
    IF \E j \in 1..Len(o.items) : o.items[j].k = k
    THEN o.items[CHOOSE j \in 1..Len(o.items) : o.items[j].k = k].v.t
    ELSE "missing"

\* pandas' inferred dtype of a column of JSON scalars: numbers, with nulls
\* and gaps as NaN, make a float column; anything else an object column
InferDtype(types) ==
    IF (\E t \in types : t = "num") /\ types \subseteq {"num", "null", "missing"}
    THEN "number" ELSE "object"

\* pd.DataFrame(<list>)
DataFrameOfList(elems) ==
    IF elems = <<>> THEN [raised |-> FALSE, frame |-> Frame(<<>>, 0)]
    ELSE IF Head(elems).t = "obj"
    THEN IF \A i \in 1..Len(elems) : elems[i].t = "obj"
         THEN LET ks == UnionKeys(elems, <<>>)
              IN [raised |-> FALSE,
                  frame |-> Frame(
                      [c \in 1..Len(ks) |->
                          Col(ks[c], InferDtype({ItemType(elems[i], ks[c]) :
                                                   i \in 1..Len(elems)}))],
                      Len(elems))]
         \* a record list with a non-record element: .keys() fails
         ELSE [raised |-> TRUE, frame |-> None]
    ELSE [raised |-> FALSE,
          frame |-> Frame(<<Col("0", InferDtype({elems[i].t : i \in 1..Len(elems)}))>>,
                          Len(elems))]

\* An HTTP exchange: requests.get times out, fails (transport failure or a
\* non-2xx status), returns a body that is not JSON, or returns JSON.
Response(kind, body) == [kind |-> kind, body |-> body]

\* variant: no shape test, whatever is not a list is wrapped as one row
fetch_api_data_wraps(resp, json_caught) ==
    CASE resp.kind = "timeout" ->
            [crashed |-> FALSE, value |-> None, msg |-> "timeout"]
      [] resp.kind \in {"http_error", "bad_json"} ->
            [crashed |-> FALSE, value |-> None, msg |-> "api_error"]
      [] OTHER ->
            IF resp.body.t = "list"
            THEN LET r == DataFrameOfList(resp.body.elems)
                 IN IF r.raised
                    THEN [crashed |-> TRUE, value |-> None, msg |-> "exception"]
                    ELSE [crashed |-> FALSE, value |-> r.frame, msg |-> "none"]
            ELSE [crashed |-> FALSE,
                  value |-> DataFrameOfList(<<resp.body>>).frame, msg |-> "none"]

\* The body of fetch_api_data.  json_caught: whether the installed requests
\* raises its own JSONDecodeError (a RequestException) on a bad body.
fetch_api_data(resp, json_caught) ==
    CASE resp.kind = "timeout" ->
            [crashed |-> FALSE, value |-> None, msg |-> "timeout"]
      [] resp.kind = "http_error" ->
            [crashed |-> FALSE, value |-> None, msg |-> "api_error"]
      [] resp.kind = "bad_json" ->
            IF json_caught
            THEN [crashed |-> FALSE, value |-> None, msg |-> "api_error"]
            ELSE [crashed |-> TRUE, value |-> None, msg |-> "exception"]
      [] OTHER ->
            IF resp.body.t = "list"
            THEN LET r == DataFrameOfList(resp.body.elems)
                 IN IF r.raised
                    THEN [crashed |-> TRUE, value |-> None, msg |-> "exception"]
                    ELSE [crashed |-> FALSE, value |-> r.frame, msg |-> "none"]
            ELSE IF resp.body.t = "obj"
            THEN [crashed |-> FALSE,
                  value |-> DataFrameOfList(<<resp.body>>).frame, msg |-> "none"]
            ELSE [crashed |-> FALSE, value |-> None, msg |-> "unsupported"]

----------------------------------------------------------------------------
(* pd.read_csv (line 144).  A file is its lines, each a list of cells; the *)
(* first line is the header.  Dates are not parsed: they stay text.        *)

File(name, lines) == [file |-> TRUE, name |-> name, lines |-> lines]
NumCells == {"1", "2"}
Cell(line, i) == IF i <= Len(line) THEN line[i] ELSE ""

read_csv(f) ==
    IF f.lines = <<>> THEN [raised |-> TRUE, frame |-> None]
    ELSE LET header == Head(f.lines)
             data == Tail(f.lines)
         IN IF \E r \in 1..Len(data) : Len(data[r]) > Len(header)
            THEN [raised |-> TRUE, frame |-> None]
            ELSE [raised |-> FALSE,
                  frame |-> Frame(
                      [c \in 1..Len(header) |->
                          Col(header[c],
                              IF data # <<>> /\ \A r \in 1..Len(data) :
                                     Cell(data[r], c) \in NumCells \cup {""}
                              THEN "number" ELSE "object")],
                      Len(data))]

----------------------------------------------------------------------------
(* st.cache_data(ttl=3600): a call returns the stored result of an earlier *)
(* call with the same arguments while it is younger than ttl, replaying    *)
(* the messages the call showed; otherwise it runs the function and stores *)
(* what it returned.  A call that raises stores nothing.                   *)

IsFresh(cache, key, t) == cache[key] # NoEntry /\ t < cache[key].at + ttl

cache_lookup(cache, key, t, computed, stores) ==
    IF IsFresh(cache, key, t)
    THEN [cache |-> cache, crashed |-> FALSE, value |-> cache[key].value,
          msg |-> cache[key].msg, net |-> FALSE, lookup |-> "hit"]
    ELSE [cache |-> IF computed.crashed \/ ~stores THEN cache
                    ELSE [cache EXCEPT ![key] = [entry |-> TRUE, at |-> t,
                                                 value |-> computed.value,
                                                 msg |-> computed.msg]],
          crashed |-> computed.crashed, value |-> computed.value,
          msg |-> computed.msg, net |-> TRUE,
          lookup |-> IF cache[key] = NoEntry THEN "miss" ELSE "expired"]

\* variant: a None result is not stored
cache_data_skips_none(cache, key, t, computed) ==
    cache_lookup(cache, key, t, computed, computed.value # None)

\* every returned value is stored, None included
cache_data(cache, key, t, computed) ==
    cache_lookup(cache, key, t, computed, TRUE)

----------------------------------------------------------------------------
(* validate_dataframe (lines 60-65).                                       *)

\* variant: the df.empty test is left out
validate_dataframe_none_only(d) ==
    IF d = None
    THEN [ok |-> FALSE, warning |-> TRUE]
    ELSE [ok |-> TRUE, warning |-> FALSE]

validate_dataframe(d) ==
    IF d = None \/ IsEmpty(d)
    THEN [ok |-> FALSE, warning |-> TRUE]
    ELSE [ok |-> TRUE, warning |-> FALSE]

----------------------------------------------------------------------------
(* Main content (lines 151-425).                                           *)

numeric_cols(d) == NamesOfDtype(d.columns, "number")
\* select_dtypes(include=['datetime64']) leaves timezone-aware columns out
datetime_cols(d) == NamesOfDtype(d.columns, "datetime64")
object_cols(d) == NamesOfDtype(d.columns, "object")
x_options(d) == datetime_cols(d) \o numeric_cols(d) \o object_cols(d)

OHLC == <<"Open", "High", "Low", "Close">>
NoChart == [kind |-> "none", volume |-> FALSE, y |-> "", x |-> "", user |-> FALSE]

\* st.selectbox with a key, for the two axis widgets: the user's pick if
\* there is one in this run; the widget's value of the previous run while
\* the widget was shown with the same options; else the first option.
axis_selectboxes(d, prev_d, prev_page, pick) ==
    LET ys == numeric_cols(d)
        xs == x_options(d)
        kept == /\ prev_page.chart.kind = "generic"
                /\ numeric_cols(prev_d) = ys
                /\ x_options(prev_d) = xs
    IN IF pick # NoPick
       THEN [y |-> pick.y, x |-> pick.x, user |-> TRUE]
       ELSE IF kept
       THEN [y |-> prev_page.chart.y, x |-> prev_page.chart.x,
             user |-> prev_page.chart.user]
       ELSE [y |-> ys[1], x |-> xs[1], user |-> FALSE]

\* the Charts tab (lines 220-344); needed: the columns the candlestick
\* asks for, least: the number of numeric columns the chart builder asks for
charts(d, source, prev_d, prev_page, pick, needed, least) ==
    IF source = "yFinance" /\ HasCol(d, "Close")
    THEN [kind |-> IF \A i \in 1..Len(needed) : HasCol(d, needed[i])
                   THEN "candlestick" ELSE "close_line",
          volume |-> HasCol(d, "Volume"), y |-> "Close", x |-> "Date",
          user |-> FALSE]
    ELSE IF Len(numeric_cols(d)) >= least
    THEN LET a == axis_selectboxes(d, prev_d, prev_page, pick)
         IN [kind |-> "generic", volume |-> FALSE, y |-> a.y, x |-> a.x,
             user |-> a.user]
    ELSE [kind |-> "no_numeric", volume |-> FALSE, y |-> "", x |-> "",
          user |-> FALSE]

\* variant: the candlestick asks for Open and Close only
chart_tab_open_close(d, source, prev_d, prev_page, pick) ==
    charts(d, source, prev_d, prev_page, pick, <<"Open", "Close">>, 1)

\* variant: the chart builder asks for two numeric columns
chart_tab_two_numeric(d, source, prev_d, prev_page, pick) ==
    charts(d, source, prev_d, prev_page, pick, OHLC, 2)

\* line 234: all of Open, High, Low, Close; line 278: "if numeric_cols"
chart_tab(d, source, prev_d, prev_page, pick) ==
    charts(d, source, prev_d, prev_page, pick, OHLC, 1)

\* the Statistics tab (lines 346-407)
stats_tab(d) ==
    IF numeric_cols(d) # <<>>
    THEN (IF Len(numeric_cols(d)) > 1 THEN "describe_corr" ELSE "describe")
    ELSE "no_numeric"

\* the gate of line 155: validate_dataframe is called only on a df that is
\* not None
main_content(d, source, prev_d, prev_page, pick) ==
    IF d # None /\ validate_dataframe(d).ok
    THEN [view |-> "main", warned |-> FALSE, preview |-> TRUE,
          chart |-> chart_tab(d, source, prev_d, prev_page, pick),
          stats |-> stats_tab(d)]
    ELSE [view |-> "welcome",
          warned |-> d # None /\ validate_dataframe(d).warning,
          preview |-> FALSE, chart |-> NoChart, stats |-> "none"]

\* an exception nothing catches ends the script run where it is raised
ExceptionPage ==
    [view |-> "exception", warned |-> FALSE, preview |-> FALSE,
     chart |-> NoChart, stats |-> "none"]

----------------------------------------------------------------------------
(* Sidebar (lines 67-149).  Each handler gives the session state, the      *)
(* caches and the record of the run it leaves behind.                      *)

Radio == {"yFinance", "API Link", "CSV Upload"}

NoCall ==
    [attempt |-> FALSE, net |-> FALSE, lookup |-> "none", body |-> None,
     result |-> None, msg |-> "none", success |-> FALSE, crashed |-> FALSE]

Inputs(selector, clicked, ticker, period, url, file) ==
    [source |-> selector, clicked |-> clicked, ticker |-> ticker,
     period |-> period, url |-> url, file |-> file]

Unchanged(call) ==
    [df |-> df, data_source |-> data_source, ticker_data |-> ticker_data,
     yf_cache |-> yf_cache, api_cache |-> api_cache, call |-> call]

\* lines 97-107
yfinance_handler(ticker, period, clicked, outcome) ==
    IF ~clicked THEN Unchanged(NoCall)
    ELSE LET r == cache_data(yf_cache, YFKey(ticker, period), now,
                             fetch_yfinance_data(outcome))
             loaded == r.value # None /\ ~IsEmpty(r.value)
         IN [df |-> IF loaded THEN r.value ELSE df,
             data_source |-> IF loaded THEN "yFinance" ELSE data_source,
             ticker_data |-> IF loaded
                             THEN [ticker |-> upper(ticker), period |-> period]
                             ELSE ticker_data,
             yf_cache |-> r.cache, api_cache |-> api_cache,
             call |-> [attempt |-> TRUE, net |-> r.net, lookup |-> r.lookup,
                       body |-> None, result |-> r.value, msg |-> r.msg,
                       success |-> loaded, crashed |-> FALSE]]

\* lines 120-129
api_handler(url, clicked, resp, json_caught) ==
    IF ~clicked THEN Unchanged(NoCall)
    ELSE IF url = "" THEN Unchanged([NoCall EXCEPT !.msg = "enter_url"])
    ELSE LET r == cache_data(api_cache, url, now,
                             fetch_api_data(resp, json_caught))
             loaded == ~r.crashed /\ r.value # None /\ ~IsEmpty(r.value)
         IN [df |-> IF loaded THEN r.value ELSE df,
             data_source |-> IF loaded THEN "API" ELSE data_source,
             ticker_data |-> ticker_data,
             yf_cache |-> yf_cache, api_cache |-> r.cache,
             call |-> [attempt |-> TRUE, net |-> r.net, lookup |-> r.lookup,
                       body |-> IF r.net /\ resp.kind = "ok" THEN resp.body
                                ELSE None,
                       result |-> r.value, msg |-> r.msg,
                       success |-> loaded, crashed |-> r.crashed]]

\* variant: the session is assigned before the parse is known to succeed
csv_handler_assigns_first(file) ==
    IF file = NoFile THEN Unchanged(NoCall)
    ELSE LET r == read_csv(file)
         IN [df |-> r.frame, data_source |-> "CSV",
             ticker_data |-> ticker_data,
             yf_cache |-> yf_cache, api_cache |-> api_cache,
             call |-> IF r.raised
                      THEN [NoCall EXCEPT !.attempt = TRUE, !.msg = "load_error"]
                      ELSE [NoCall EXCEPT !.attempt = TRUE, !.result = r.frame,
                                          !.success = TRUE]]

\* lines 142-149
csv_handler(file) ==
    IF file = NoFile THEN Unchanged(NoCall)
    ELSE LET r == read_csv(file)
         IN IF r.raised
            THEN Unchanged([NoCall EXCEPT !.attempt = TRUE, !.msg = "load_error"])
            ELSE [df |-> r.frame, data_source |-> "CSV",
                  ticker_data |-> ticker_data,
                  yf_cache |-> yf_cache, api_cache |-> api_cache,
                  call |-> [NoCall EXCEPT !.attempt = TRUE, !.result = r.frame,
                                          !.success = TRUE]]

sidebar(selector, clicked, ticker, period, outcome, url, resp, json_caught, file) ==
    IF selector = "yFinance" THEN yfinance_handler(ticker, period, clicked, outcome)
    ELSE IF selector = "API Link" THEN api_handler(url, clicked, resp, json_caught)
    ELSE csv_handler(file)

----------------------------------------------------------------------------
(* One run of the script.                                                  *)

Script(selector, clicked, ticker, period, outcome, url, resp, json_caught, file, pick) ==
    \E h \in {sidebar(selector, clicked, ticker, period, outcome, url, resp,
                      json_caught, file)} :
       /\ df' = h.df
       /\ data_source' = h.data_source
       /\ ticker_data' = h.ticker_data
       /\ yf_cache' = h.yf_cache
       /\ api_cache' = h.api_cache
       /\ now' = now
       /\ last' = [in |-> Inputs(selector, clicked, ticker, period, url, file),
                   call |-> h.call]
       /\ page' = IF h.call.crashed THEN ExceptionPage
                  ELSE main_content(h.df, h.data_source, df, page, pick)

----------------------------------------------------------------------------
(* The inputs a run can meet.                                              *)

aapl == <<"a", "a", "p", "l">>
AAPL == <<"A", "A", "P", "L">>
\* the (ticker, period) pairs typed into the yFinance panel
Requests == {<<aapl, "1mo">>, <<AAPL, "1mo">>, <<AAPL, "1y">>}
YFKeys == {<<AAPL, p>> : p \in {"1mo", "1y"}}
Urls == {"u1", "u2"}

DateNaive == Col("Date", "datetime64")
DateTz == Col("Date", "datetimetz")
OHLCV == <<"Open", "High", "Low", "Close", "Volume">>

\* what the provider can answer in the session runs
Outcomes ==
    {Raised, History(DateTz, OHLCV, 2), History(DateTz, OHLCV, 3)}

\* every shape of history the chart dispatch can meet
Histories ==
    {History(DateTz, OHLCV, 2),
     History(DateTz, <<"Open", "High", "Low", "Close">>, 2),
     History(DateTz, <<"High", "Low", "Close", "Volume">>, 2),
     History(DateTz, <<"Open", "Low", "Close", "Volume">>, 2),
     History(DateTz, <<"Open", "High", "Close", "Volume">>, 2),
     History(DateTz, <<"Open", "High", "Low", "Volume">>, 2),
     History(DateNaive, <<"Open", "High", "Low", "Volume">>, 2),
     History(DateTz, <<"Close">>, 2),
     History(DateNaive, <<>>, 2),
     History(DateTz, OHLCV, 0)}

Ok(body) == Response("ok", body)
NoResponse == Response("none", None)
ObjA == JObj(<<KV("a", JNum)>>)
ObjAB == JObj(<<KV("a", JNum), KV("b", JStr)>>)
ObjB == JObj(<<KV("b", JStr)>>)

\* what the endpoint can answer in the session runs
Responses == {Response("timeout", None), Ok(ObjA)}

\* every shape of answer fetch_api_data can meet
Bodies ==
    {JNum, JNull,
     JList(<<ObjAB, ObjA>>), JList(<<ObjB>>),
     ObjA, JObj(<<>>),
     JList(<<>>), JList(<<JNum, JNum, JNum>>),
     JList(<<ObjA, JNum>>)}
AllResponses ==
    {Response("timeout", None), Response("http_error", None),
     Response("bad_json", None)} \cup {Ok(b) : b \in Bodies}

CsvGood ==
    File("good.csv", <<<<"d", "a", "b">>, <<"2020-01-01", "1", "x">>,
                       <<"2020-01-02", "2", "x">>>>)
CsvRagged == File("ragged.csv", <<<<"a", "b">>, <<"1", "x">>, <<"1", "x", "2">>>>)
CsvHeaderOnly == File("header.csv", <<<<"a", "b">>>>)
CsvEmpty == File("empty.csv", <<>>)
CsvText == File("text.csv", <<<<"b">>, <<"x">>>>)
CsvNums == File("nums.csv", <<<<"a", "c">>, <<"1", "2">>, <<"2">>>>)
CsvOHLC ==
    File("ohlc.csv", <<<<"Open", "High", "Low", "Close">>, <<"1", "2", "1", "2">>>>)
Files == {CsvRagged}
AllFiles == {CsvGood, CsvRagged, CsvHeaderOnly, CsvEmpty, CsvText, CsvNums, CsvOHLC}

----------------------------------------------------------------------------
(* State after the first run of the script: nothing loaded, the welcome    *)
(* screen shown.                                                           *)

Init ==
    /\ df = None
    /\ data_source = "None"
    /\ ticker_data = EmptyDict
    /\ yf_cache = [k \in YFKeys |-> NoEntry]
    /\ api_cache = [u \in Urls |-> NoEntry]
    /\ now = 0
    /\ last = [in |-> Inputs("yFinance", FALSE, <<>>, "", "", NoFile),
               call |-> NoCall]
    /\ page = main_content(None, "None", None, ExceptionPage, NoPick)

(* The interactions that start a run.                                      *)

\* the "Fetch Data" button of the yFinance panel
FetchYFinance(ticker, period, outcome) ==
    Script("yFinance", TRUE, ticker, period, outcome, "", NoResponse, TRUE,
           NoFile, NoPick)

\* the "Fetch Data" button of the API panel
FetchAPI(url, resp, json_caught) ==
    Script("API Link", TRUE, <<>>, "", Raised, url, resp, json_caught,
           NoFile, NoPick)

\* a file is put into, or taken out of, the uploader
UploadCSV(file) ==
    Script("CSV Upload", FALSE, <<>>, "", Raised, "", NoResponse, TRUE,
           file, NoPick)

\* the axis picks the page on screen offers
Picks ==
    IF page.chart.kind = "generic"
    THEN {[pick |-> TRUE, y |-> y, x |-> x] :
              y \in SeqToSet(numeric_cols(df)), x \in SeqToSet(x_options(df))}
    ELSE {}

\* any other interaction: the radio, a text field, an axis selectbox.  No
\* button is pressed; the uploader keeps its file while it stays on screen.
Rerun(selector, pick) ==
    /\ pick # NoPick => selector = last.in.source
    /\ Script(selector, FALSE, <<>>, "", Raised, "", NoResponse, TRUE,
              IF selector = "CSV Upload" /\ last.in.source = "CSV Upload"
              THEN last.in.file ELSE NoFile,
              pick)

Advance ==
    /\ now + Tick <= MaxTicks * Tick
    /\ now' = now + Tick
    /\ UNCHANGED <<df, data_source, ticker_data, yf_cache, api_cache, last, page>>

\* The provider and the endpoint answer only when they are called: a run
\* served from the cache meets no answer at all.
Answers(cache, key, all, nothing) ==
    IF key \in DOMAIN cache /\ IsFresh(cache, key, now) THEN {nothing} ELSE all

Next ==
    \/ \E q \in Requests :
          \E o \in Answers(yf_cache, YFKey(q[1], q[2]), Outcomes, Raised) :
              FetchYFinance(q[1], q[2], o)
    \/ \E u \in {"", "u1"} :
          \E r \in Answers(api_cache, u, Responses, NoResponse) :
              FetchAPI(u, r, TRUE)
    \/ \E f \in Files \cup {NoFile} : UploadCSV(f)
    \/ \E s \in Radio, k \in Picks \cup {NoPick} : Rerun(s, k)
    \/ Advance

Spec == Init /\ [][Next]_vars

\* The same program met with every shape of input, at one instant.
NextShapes ==
    \/ \E f \in AllFiles \cup {NoFile} : UploadCSV(f)
    \/ \E o \in Answers(yf_cache, YFKey(AAPL, "1mo"), Histories \cup {Raised}, Raised) :
          FetchYFinance(AAPL, "1mo", o)
    \/ \E r \in Answers(api_cache, "u1", AllResponses, NoResponse), c \in BOOLEAN :
          (c \/ r.kind = "bad_json") /\ FetchAPI("u1", r, c)
    \/ \E s \in Radio, k \in Picks \cup {NoPick} : Rerun(s, k)

SpecShapes == Init /\ [][NextShapes]_vars

----------------------------------------------------------------------------
(* Properties.                                                             *)

Failures == {"fetch_error", "timeout", "api_error", "unsupported",
             "load_error", "exception"}
IsFrame(d) == d # None
AllPresent(d, names) == \A i \in 1..Len(names) : HasCol(d, names[i])
NumericCount(d) == Cardinality({i \in 1..Len(d.columns) : d.columns[i].dtype = "number"})
FirstOf(d, dtypes) ==
    d.columns[CHOOSE i \in 1..Len(d.columns) :
                 /\ d.columns[i].dtype \in dtypes
                 /\ \A j \in 1..(i - 1) : d.columns[j].dtype \notin dtypes].name
AllObjects(elems) == \A i \in 1..Len(elems) : elems[i].t = "obj"
AllScalars(elems) == \A i \in 1..Len(elems) : elems[i].t \in {"num", "str", "null"}

\* C1: an ingestion attempt that ends in a failure leaves the session's
\* Dataset, its source tag and its ticker data exactly as they were before
\* the attempt.
C1_FailedAttemptKeepsSession ==
    [][(last'.call.attempt /\ last'.call.msg \in Failures)
          => (df' = df /\ data_source' = data_source
              /\ ticker_data' = ticker_data)]_vars

\* a CSV that does not parse was uploaded over a Dataset loaded from the API
C1_Witness ==
    /\ last.in.source = "CSV Upload"
    /\ last.call.msg = "load_error"
    /\ IsFrame(df) /\ data_source = "API"

\* C2: after a successful load no part of the session state describes an
\* earlier load: df and data_source are those of this load, and ticker_data
\* is set only when this load is a yFinance load, to its ticker and period.
C2_SessionReplacedWholesale ==
    last.call.success =>
        /\ df = last.call.result
        /\ data_source = (CASE last.in.source = "yFinance" -> "yFinance"
                            [] last.in.source = "API Link" -> "API"
                            [] OTHER -> "CSV")
        /\ ticker_data = IF last.in.source = "yFinance"
                         THEN [ticker |-> upper(last.in.ticker),
                               period |-> last.in.period]
                         ELSE EmptyDict

\* C3: validate is false with a warning for an absent Dataset and for one
\* with zero rows, true otherwise; preview, charts and statistics are shown
\* only when the session Dataset passed validation, and a session Dataset
\* with zero rows is answered by the warning.
C3_ValidateGatesDownstream ==
    /\ validate_dataframe(None) = [ok |-> FALSE, warning |-> TRUE]
    /\ IsFrame(df) =>
          validate_dataframe(df) = [ok |-> df.rows > 0, warning |-> df.rows = 0]
    /\ (page.preview \/ page.chart.kind # "none" \/ page.stats # "none")
          => (IsFrame(df) /\ df.rows > 0 /\ page.view = "main")
    /\ (IsFrame(df) /\ df.rows = 0 /\ page.view # "exception")
          => (page.warned /\ page.view = "welcome")
    /\ page.warned => (IsFrame(df) /\ df.rows = 0)

\* a CSV with a header and no rows is the session Dataset, and the warning
\* is on screen
C3_Witness ==
    /\ IsFrame(df) /\ df.rows = 0 /\ data_source = "CSV"
    /\ page.warned /\ page.view = "welcome"

\* C4: a yFinance fetch that returns zero rows without an error is not
\* reported as an error and is answered by the Validator's empty-dataset
\* warning.
C4_EmptyFetchIsWarned ==
    (/\ last.in.source = "yFinance" /\ last.call.attempt
     /\ IsFrame(last.call.result) /\ last.call.result.rows = 0)
        => (last.call.msg = "none" /\ page.warned)

\* C5 as stated: the candlestick is drawn exactly when Open, High, Low and
\* Close are all in the Dataset, and a Dataset with one of the four removed
\* gets the single Close line.
C5_OhlcIffAllFour ==
    page.view = "main" =>
        /\ page.chart.kind = "candlestick" <=> AllPresent(df, OHLC)
        /\ (\E i \in 1..4 : /\ ~HasCol(df, OHLC[i])
                            /\ \A j \in (1..4) \ {i} : HasCol(df, OHLC[j]))
              => page.chart.kind = "close_line"

\* C5 amended: for a yFinance Dataset the candlestick is drawn exactly when
\* all four are present; with Close present and one of Open, High, Low
\* missing the single Close line is drawn; without Close, and for every
\* other source, neither is drawn.
C5_OhlcForTimeSeries ==
    page.view = "main" =>
        /\ page.chart.kind = "candlestick"
              <=> (data_source = "yFinance" /\ AllPresent(df, OHLC))
        /\ page.chart.kind = "close_line"
              <=> (/\ data_source = "yFinance" /\ HasCol(df, "Close")
                   /\ ~AllPresent(df, OHLC))

\* a yFinance Dataset with only Open missing shows the Close line
C5_Witness ==
    /\ data_source = "yFinance" /\ page.view = "main"
    /\ ~HasCol(df, "Open") /\ AllPresent(df, <<"High", "Low", "Close">>)
    /\ page.chart.kind = "close_line"

\* C6: the no-numeric-columns report is shown exactly when the Dataset has
\* no numeric column, whatever the source.
C6_NoNumericIffNone ==
    page.view = "main" =>
        (page.chart.kind = "no_numeric" <=> NumericCount(df) = 0)

\* a Dataset with exactly one numeric column is charted without the report
C6_Witness ==
    /\ page.view = "main" /\ data_source = "API"
    /\ NumericCount(df) = 1 /\ page.chart.kind = "generic"

\* C7 as stated: a list of objects gives one row per object, an object one
\* row, and every other shape fails as unsupported and gives no Dataset.
C7_ShapeResolution ==
    (last.in.source = "API Link" /\ last.call.body # None) =>
        LET b == last.call.body
            r == last.call.result
        IN IF b.t = "list" /\ AllObjects(b.elems)
           THEN IsFrame(r) /\ r.rows = Len(b.elems)
           ELSE IF b.t = "obj"
           THEN IsFrame(r) /\ r.rows = 1
           ELSE r = None /\ last.call.msg = "unsupported"

\* C7 amended: a list of objects gives one row per object, an object one
\* row, a value that is neither a list nor an object fails as unsupported,
\* and a list of scalars is accepted: one row per element in one column.
C7_ShapeResolutionLists ==
    (last.in.source = "API Link" /\ last.call.body # None) =>
        LET b == last.call.body
            r == last.call.result
        IN /\ (b.t = "list" /\ AllObjects(b.elems))
                 => (IsFrame(r) /\ r.rows = Len(b.elems))
           /\ b.t = "obj" => (IsFrame(r) /\ r.rows = 1)
           /\ b.t \notin {"list", "obj"}
                 => (r = None /\ last.call.msg = "unsupported")
           /\ (b.t = "list" /\ b.elems # <<>> /\ AllScalars(b.elems))
                 => (/\ IsFrame(r) /\ r.rows = Len(b.elems)
                     /\ Len(r.columns) = 1 /\ last.call.msg = "none")

\* the endpoint answered 42 and the fetch failed as unsupported
C7_Witness ==
    /\ last.in.source = "API Link" /\ last.call.body = JNum
    /\ last.call.result = None /\ last.call.msg = "unsupported"

\* C8: a yFinance fetch for a (symbol, period) that was fetched less than
\* ttl ago makes no network call and returns the Dataset that fetch
\* returned; a fetch for a (symbol, period) never fetched, or fetched ttl or
\* more ago, makes a network call, whose result is kept for the next ttl.
C8_CacheWithinTtl ==
    [][(now' = now /\ last'.in.source = "yFinance" /\ last'.in.clicked) =>
          LET k == <<upper(last'.in.ticker), last'.in.period>>
              e == yf_cache[k]
          IN IF e # NoEntry /\ now < e.at + ttl
             THEN /\ ~last'.call.net
                  /\ last'.call.result = e.value
                  /\ yf_cache' = yf_cache
             ELSE /\ last'.call.net
                  /\ yf_cache'[k] # NoEntry
                  /\ yf_cache'[k].at = now
                  /\ yf_cache'[k].value = last'.call.result]_vars

\* a fetch typed in lower case was served, later than the original fetch,
\* from the entry of the upper-case symbol
C8_Witness ==
    /\ last.in.source = "yFinance" /\ last.in.ticker = aapl
    /\ last.call.lookup = "hit" /\ IsFrame(last.call.result)
    /\ yf_cache[<<AAPL, last.in.period>>].at < now

\* C9: with no axis chosen by the user the chart builder takes the first
\* numeric column as y, and as x the first temporal column if there is
\* one, else the first numeric column other than y.
C9_DefaultAxes ==
    (page.chart.kind = "generic" /\ ~page.chart.user) =>
        /\ page.chart.y = FirstOf(df, {"number"})
        /\ IF \E i \in 1..Len(df.columns) :
                  df.columns[i].dtype \in {"datetime64", "datetimetz"}
           THEN page.chart.x = FirstOf(df, {"datetime64", "datetimetz"})
           ELSE NumericCount(df) > 1 =>
                   /\ page.chart.x # page.chart.y
                   /\ page.chart.x \in SeqToSet(numeric_cols(df))

\* C10: a fetch that returned a failure is memoized like any other: while
\* the failed entry is younger than ttl the same request makes no network
\* call and shows the same failure; once it is ttl old the request makes a
\* network call; and every network call that returns leaves its result,
\* failure included, in the cache.
C10_FailureIsMemoized ==
    [][(/\ now' = now /\ last'.in.clicked
        /\ \/ last'.in.source = "yFinance"
           \/ last'.in.source = "API Link" /\ last'.in.url # "") =>
          LET yf == last'.in.source = "yFinance"
              k == IF yf THEN <<upper(last'.in.ticker), last'.in.period>>
                   ELSE last'.in.url
              e == IF yf THEN yf_cache[k] ELSE api_cache[k]
              e2 == IF yf THEN yf_cache'[k] ELSE api_cache'[k]
          IN /\ (e # NoEntry /\ e.value = None) =>
                    IF now < e.at + ttl
                    THEN /\ ~last'.call.net
                         /\ last'.call.result = None
                         /\ last'.call.msg = e.msg
                         /\ e2 = e
                    ELSE last'.call.net
             /\ (last'.call.net /\ ~last'.call.crashed
                 /\ last'.call.result = None) =>
                    (e2 # NoEntry /\ e2.at = now /\ e2.value = None
                     /\ e2.msg = last'.call.msg)]_vars

\* a request that timed out was repeated and answered from the cache
C10_Witness ==
    /\ last.in.source = "API Link" /\ last.call.lookup = "hit"
    /\ last.call.result = None /\ last.call.msg = "timeout"

====
